---- MODULE Spec2Model ----
(***************************************************************************)
(* A state-machine model of libsolidity/analysis/ImmutableValidator.cpp.   *)
(*                                                                         *)
(* The validator is a recursive AST visitor.  The recursion is modelled by *)
(* an explicit stack of frames: a frame is either a node still to be       *)
(* accepted, or the rest of a handler that is suspended while its children *)
(* are walked (restore a flag, run the completeness check of a return,     *)
(* record an inline initializer, ...).  Every step of Next executes the    *)
(* frame on top of the stack, or, when the stack is empty, the next        *)
(* iteration of the loops of analyze().                                    *)
(***************************************************************************)
EXTENDS Integers, Sequences, FiniteSets, TLC

(***************************************************************************)
(* Bounds of the model.                                                    *)
(***************************************************************************)
\* longest statement list of the generated constructor bodies
MaxBodyLen == 2
\* deepest stack of suspended handlers the model follows
MaxStack == 14

nullptr == "nullptr"

(***************************************************************************)
(* AST nodes.  Every node is a record of the same shape; a field that a    *)
(* node kind does not have holds "" / FALSE / <<>>.                        *)
(*   kind                        Node (any node with the default visit),   *)
(*                               Identifier, MemberAccess, IfStatement,    *)
(*                               WhileStatement, Return                    *)
(*   referencedDeclaration       annotation().referencedDeclaration        *)
(*   lValueRequested,                                                      *)
(*   lValueOfOrdinaryAssignment  annotation() of an expression             *)
(*   memberName                  MemberAccess::memberName()                *)
(*   expressionIsFunctionType    expression().annotation().type is a       *)
(*                               FunctionType                              *)
(*   typeIsFixedBytes            annotation().type is a FixedBytesType     *)
(*   functionKind, declaration   annotation().type as a FunctionType: its  *)
(*                               kind() and declaration() ("" = none)      *)
(*   children                    the sub-nodes, in accept() order          *)
(***************************************************************************)
ASTNode(kind, ref, lvr, lvo, member, efn, tfb, fkind, decl, ch) ==
    [kind |-> kind, referencedDeclaration |-> ref,
     lValueRequested |-> lvr, lValueOfOrdinaryAssignment |-> lvo,
     memberName |-> member, expressionIsFunctionType |-> efn,
     typeIsFixedBytes |-> tfb, functionKind |-> fkind, declaration |-> decl,
     children |-> ch]

\* a node whose visit() is the default one: its children are accepted in order
Composite(ch) == ASTNode("Node", "", FALSE, FALSE, "", FALSE, FALSE, "", "", ch)
Literal == Composite(<<>>)
Block(stmts) == Composite(stmts)

Identifier(ref, lvr, lvo) ==
    ASTNode("Identifier", ref, lvr, lvo, "", FALSE, FALSE, "", "", <<>>)
\* a use of d as an rvalue, or a mention of a function / modifier / contract
Ref(d) == Identifier(d, FALSE, FALSE)
\* the left-hand side of "v = ..."
Target(v) == Identifier(v, TRUE, TRUE)
\* the operand of "v += ..." or "v++": an lvalue, not of an ordinary assignment
CompoundTarget(v) == Identifier(v, TRUE, FALSE)
\* "v = e"
AssignTo(v, e) == Composite(<<Target(v), e>>)
Assign(v) == AssignTo(v, Literal)

MemberAccess(member, expr, efn, tfb, ref, fkind, decl, lvr, lvo) ==
    ASTNode("MemberAccess", ref, lvr, lvo, member, efn, tfb, fkind, decl, <<expr>>)
\* "f.selector" with f a function: the result is a bytes4
Selector(f) == MemberAccess("selector", Ref(f), TRUE, TRUE, "", "", "", FALSE, FALSE)
\* "s.selector" where s is no function (a struct member named selector)
FieldNamedSelector(s) ==
    MemberAccess("selector", Ref(s), FALSE, FALSE, "", "", "", FALSE, FALSE)
\* "C.f" / "super.f": an internal function named through a contract
InternalMember(c, f) ==
    MemberAccess("f", Ref(c), FALSE, FALSE, f, "Internal", f, FALSE, FALSE)
\* "this.f": an external function
ExternalMember(f) ==
    MemberAccess("f", Ref("this"), FALSE, FALSE, f, "External", f, FALSE, FALSE)
\* "C.v": a state variable named through its contract, read or assigned
MemberRead(c, v) == MemberAccess(v, Ref(c), FALSE, FALSE, v, "", "", FALSE, FALSE)
MemberTarget(c, v) == MemberAccess(v, Ref(c), FALSE, FALSE, v, "", "", TRUE, TRUE)

IfStatement(c, t) ==
    ASTNode("IfStatement", "", FALSE, FALSE, "", FALSE, FALSE, "", "", <<c, t>>)
IfElseStatement(c, t, f) ==
    ASTNode("IfStatement", "", FALSE, FALSE, "", FALSE, FALSE, "", "", <<c, t, f>>)
WhileStatement(c, b) ==
    ASTNode("WhileStatement", "", FALSE, FALSE, "", FALSE, FALSE, "", "", <<c, b>>)
Return == ASTNode("Return", "", FALSE, FALSE, "", FALSE, FALSE, "", "", <<>>)
ReturnValue(e) == ASTNode("Return", "", FALSE, FALSE, "", FALSE, FALSE, "", "", <<e>>)

(***************************************************************************)
(* Declarations.  Two contracts, D deriving from B.                        *)
(*   contract B { uint immutable x; uint z;                                *)
(*                constructor; function f() virtual; modifier m virtual }  *)
(*   contract D is B { uint immutable y;                                   *)
(*                constructor; function f(uint); function f() override;    *)
(*                function g(); modifier m override }                      *)
(* "l" is a local variable.  Which of the callables a unit declares, and   *)
(* their bodies, is part of the program under analysis (prog).             *)
(***************************************************************************)
Contracts == {"B", "D"}
Variables == {"x", "y", "z", "l"}
Callables == {"B.ctor", "D.ctor", "B.f", "D.fu", "D.f", "D.g", "B.m", "D.m"}

VariableDeclaration(v) ==
    CASE v = "x" -> [contract |-> "B", isStateVariable |-> TRUE, immutable |-> TRUE]
      [] v = "y" -> [contract |-> "D", isStateVariable |-> TRUE, immutable |-> TRUE]
      [] v = "z" -> [contract |-> "B", isStateVariable |-> TRUE, immutable |-> FALSE]
      [] OTHER   -> [contract |-> "", isStateVariable |-> FALSE, immutable |-> FALSE]

Callable(kind, contract, name, ctor, virt, params) ==
    [kind |-> kind, contract |-> contract, name |-> name, isConstructor |-> ctor,
     virtualSemantics |-> virt, parameterTypes |-> params, returnTypes |-> ""]

CallableDeclaration(c) ==
    CASE c = "B.ctor" -> Callable("function", "B", "", TRUE, FALSE, "")
      [] c = "D.ctor" -> Callable("function", "D", "", TRUE, FALSE, "")
      [] c = "B.f"    -> Callable("function", "B", "f", FALSE, TRUE, "")
      [] c = "D.fu"   -> Callable("function", "D", "f", FALSE, FALSE, "uint")
      [] c = "D.f"    -> Callable("function", "D", "f", FALSE, FALSE, "")
      [] c = "D.g"    -> Callable("function", "D", "g", FALSE, FALSE, "")
      [] c = "B.m"    -> Callable("modifier", "B", "m", FALSE, TRUE, "")
      [] c = "D.m"    -> Callable("modifier", "D", "m", FALSE, FALSE, "")

StateVariablesOf(contract) == IF contract = "B" THEN <<"x", "z">> ELSE <<"y">>

IsVariableDeclaration(d) == d \in Variables
IsCallableDeclaration(d) == d \in Callables

(***************************************************************************)
(* Sequence helpers.                                                       *)
(***************************************************************************)
Reversed(s) == [i \in 1..Len(s) |-> s[Len(s) + 1 - i]]

RECURSIVE Flatten(_)
Flatten(ss) == IF ss = <<>> THEN <<>> ELSE Head(ss) \o Flatten(Tail(ss))

SeqsUpTo(S, n) == UNION {[1..k -> S] : k \in 0..n}

Min(S) == CHOOSE i \in S : \A j \in S : i <= j

(***************************************************************************)
(* The unit under analysis (m_currentContract and what hangs off it):      *)
(*   linearizedBaseContracts  annotation().linearizedBaseContracts, most   *)
(*                            derived first                                *)
(*   value[v]                 <<>> or <<e>>: the inline initializer        *)
(*   definedFunctions[c]      ContractDefinition::definedFunctions(), the  *)
(*                            constructor among them                       *)
(*   functionModifiers[c]     ContractDefinition::functionModifiers()      *)
(*   baseContracts[c]         the inheritance specifiers of c, each <<>>   *)
(*                            (no argument list) or <<args>>               *)
(*   modifiers[f]             the modifier invocations of function f       *)
(*   body[f]                  <<>> (not implemented) or <<block>>          *)
(***************************************************************************)
VARIABLES
    prog,
    pc, idx, stack,
    m_readingOfImmutableAllowed, m_initializationOfImmutableAllowed,
    m_inBranch, m_inLoop, m_currentConstructor,
    m_initializedStateVariables, m_visitedCallables,
    m_errorReporter,
    requests, walks, uses, checks, starts, scopes

vars == <<prog, pc, idx, stack,
          m_readingOfImmutableAllowed, m_initializationOfImmutableAllowed,
          m_inBranch, m_inLoop, m_currentConstructor,
          m_initializedStateVariables, m_visitedCallables, m_errorReporter,
          requests, walks, uses, checks, starts, scopes>>

linearizedBaseContracts == prog.linearizedBaseContracts
\* the linearized list as it is, without the adaptor: most derived first
linearizeContracts_MostDerivedFirst == prog.linearizedBaseContracts
\* boost::adaptors::reversed of the linearized list: most base first
linearizeContracts == Reversed(prog.linearizedBaseContracts)
m_currentContract == prog.linearizedBaseContracts[1]

stateVariablesIncludingInherited ==
    Flatten([i \in 1..Len(linearizeContracts) |-> StateVariablesOf(linearizeContracts[i])])

constructor(contract) ==
    LET fs == prog.definedFunctions[contract]
        cs == {i \in 1..Len(fs) : CallableDeclaration(fs[i]).isConstructor}
    IN  IF cs = {} THEN nullptr ELSE fs[Min(cs)]

(***************************************************************************)
(* Diagnostics: the literal messages of the typeError calls.               *)
(***************************************************************************)
ErrNoConstructor ==
    "Immutable variables can only be initialized inline or directly in the constructor."
ErrOtherContract ==
    "Immutable variables must be initialized in the constructor of the contract they are defined in."
ErrLoop ==
    "Immutable variables can only be initialized once, not in a while statement."
ErrBranch ==
    "Immutable variables must be initialized unconditionally, not in an if statement."
ErrNotBody ==
    "Immutable variables must be initialized in the constructor body."
ErrAlready ==
    "Immutable state variable already initialized."
ErrRead ==
    "Immutable variables cannot be read during contract creation time, which means they cannot be read in the constructor or any function or modifier called from it."
ErrEnds ==
    "Construction controlflow ends without initializing all immutable state variables."

\* one m_errorReporter.typeError call; secondary is the "Not initialized: " variable
TypeError(loc, msg, secondary) ==
    [location |-> loc, message |-> msg, secondary |-> secondary]

(***************************************************************************)
(* Source locations: the place of a node is the declaration (or inline     *)
(* initializer, or inheritance list) it belongs to and its path below it.  *)
(***************************************************************************)
Location(root, path) == [root |-> root, path |-> path]
NoLocation == Location("", <<>>)
ChildLocation(loc, i) == Location(loc.root, Append(loc.path, i))

(***************************************************************************)
(* Stack frames.                                                           *)
(***************************************************************************)
Frame(op, node, decl, loc, flag) ==
    [op |-> op, node |-> node, decl |-> decl, loc |-> loc, flag |-> flag]

\* node.accept(*this)
AcceptFrame(node, loc) == Frame("accept", node, "", loc, FALSE)
\* visitCallable(decl), called by the node (or the loop of analyze) at loc
VisitCallableFrame(decl, loc) == Frame("visitCallable", Literal, decl, loc, FALSE)
\* decl.accept(*this) of a FunctionDefinition / ModifierDefinition
AcceptCallableFrame(decl) == Frame("acceptCallable", Literal, decl, NoLocation, FALSE)
\* the rest of a handler, to run when the frames above it are done
RestFrame(op, node, decl, loc, flag) == Frame(op, node, decl, loc, flag)

ChildFrames(node, loc) ==
    [i \in 1..Len(node.children) |-> AcceptFrame(node.children[i], ChildLocation(loc, i))]

\* ASTNode::listAccept
ListAccept(nodes, loc) ==
    [i \in 1..Len(nodes) |-> AcceptFrame(nodes[i], ChildLocation(loc, i))]

Top == Head(stack)
Rest == Tail(stack)
Running == pc \in {"phase1", "phase2", "phase3", "phase4"}
Executing(op) == Running /\ stack # <<>> /\ Top.op = op
Accepting(kind) == Executing("accept") /\ Top.node.kind = kind
\* the frames pushed fit the stack the model follows
Push(frames) == Len(frames) + Len(Rest) <= MaxStack /\ stack' = frames \o Rest
Pop == stack' = Rest

(***************************************************************************)
(* findFinalOverride                                                       *)
(***************************************************************************)
\* every function, resp. modifier, of the hierarchy in the order the two
\* nested loops of findFinalOverride meet them
FunctionsInLinearizedOrder ==
    Flatten([i \in 1..Len(linearizedBaseContracts) |->
                prog.definedFunctions[linearizedBaseContracts[i]]])
ModifiersInLinearizedOrder ==
    Flatten([i \in 1..Len(linearizedBaseContracts) |->
                prog.functionModifiers[linearizedBaseContracts[i]]])

\* a comparison of the names alone
SameFunction_NameOnly(funcDef, originFuncDef) ==
    CallableDeclaration(funcDef).name = CallableDeclaration(originFuncDef).name

\* funcDef->name() == originFuncDef->name(), equal return and parameter types
SameFunction(funcDef, originFuncDef) ==
    /\ CallableDeclaration(funcDef).name = CallableDeclaration(originFuncDef).name
    /\ CallableDeclaration(funcDef).returnTypes = CallableDeclaration(originFuncDef).returnTypes
    /\ CallableDeclaration(funcDef).parameterTypes =
           CallableDeclaration(originFuncDef).parameterTypes

FirstMatch(decls, matching, default) ==
    LET hits == {i \in 1..Len(decls) : decls[i] \in matching}
    IN  IF hits = {} THEN default ELSE decls[Min(hits)]

\* a resolver that never looks for an override
findFinalOverride_Monomorphic(callable) == callable

findFinalOverride(callable) ==
    IF ~CallableDeclaration(callable).virtualSemantics
    THEN callable
    ELSE IF CallableDeclaration(callable).kind = "function"
         THEN FirstMatch(FunctionsInLinearizedOrder,
                         {f \in Callables : SameFunction(f, callable)}, callable)
         ELSE FirstMatch(ModifiersInLinearizedOrder,
                         {m \in Callables :
                             CallableDeclaration(m).name = CallableDeclaration(callable).name},
                         callable)

(***************************************************************************)
(* analyseVariableDeclaration                                              *)
(***************************************************************************)
IsImmutableStateVariable(v) ==
    VariableDeclaration(v).isStateVariable /\ VariableDeclaration(v).immutable

\* lValueRequested && lValueOfOrdinaryAssignment
IsPlainWrite(expression) ==
    expression.lValueRequested /\ expression.lValueOfOrdinaryAssignment

\* the chain without its test of m_initializationOfImmutableAllowed
PlacementViolation_InitializationUntested(v) ==
    IF m_currentConstructor = nullptr
    THEN <<ErrNoConstructor>>
    ELSE IF CallableDeclaration(m_currentConstructor).contract # VariableDeclaration(v).contract
    THEN <<ErrOtherContract>>
    ELSE IF m_inLoop
    THEN <<ErrLoop>>
    ELSE IF m_inBranch
    THEN <<ErrBranch>>
    ELSE <<>>

\* the chain without its test of m_inBranch
PlacementViolation_BranchUntested(v) ==
    IF m_currentConstructor = nullptr
    THEN <<ErrNoConstructor>>
    ELSE IF CallableDeclaration(m_currentConstructor).contract # VariableDeclaration(v).contract
    THEN <<ErrOtherContract>>
    ELSE IF m_inLoop
    THEN <<ErrLoop>>
    ELSE IF ~m_initializationOfImmutableAllowed
    THEN <<ErrNotBody>>
    ELSE <<>>

\* the chain with the tests of m_inLoop and m_inBranch in the other order
PlacementViolation_BranchBeforeLoop(v) ==
    IF m_currentConstructor = nullptr
    THEN <<ErrNoConstructor>>
    ELSE IF CallableDeclaration(m_currentConstructor).contract # VariableDeclaration(v).contract
    THEN <<ErrOtherContract>>
    ELSE IF m_inBranch
    THEN <<ErrBranch>>
    ELSE IF m_inLoop
    THEN <<ErrLoop>>
    ELSE IF ~m_initializationOfImmutableAllowed
    THEN <<ErrNotBody>>
    ELSE <<>>

\* the if / else-if chain of lines 187-211: at most one message
PlacementViolation(v) ==
    IF m_currentConstructor = nullptr
    THEN <<ErrNoConstructor>>
    ELSE IF CallableDeclaration(m_currentConstructor).contract # VariableDeclaration(v).contract
    THEN <<ErrOtherContract>>
    ELSE IF m_inLoop
    THEN <<ErrLoop>>
    ELSE IF m_inBranch
    THEN <<ErrBranch>>
    ELSE IF ~m_initializationOfImmutableAllowed
    THEN <<ErrNotBody>>
    ELSE <<>>

\* lines 213-217: the emplace fails when the variable is already in the set
AlreadyInitialized(v) ==
    IF v \in m_initializedStateVariables THEN <<ErrAlready>> ELSE <<>>

\* an analyseVariableDeclaration whose already-initialized test is one more
\* link of the else-if chain
UseViolations_FirstOnly(v, expression) ==
    IF ~IsImmutableStateVariable(v)
    THEN <<>>
    ELSE IF IsPlainWrite(expression)
    THEN IF PlacementViolation(v) # <<>> THEN PlacementViolation(v) ELSE AlreadyInitialized(v)
    ELSE IF ~m_readingOfImmutableAllowed
    THEN <<ErrRead>>
    ELSE <<>>

\* the messages analyseVariableDeclaration reports for a use of v
UseViolations(v, expression) ==
    IF ~IsImmutableStateVariable(v)
    THEN <<>>
    ELSE IF IsPlainWrite(expression)
    THEN PlacementViolation(v) \o AlreadyInitialized(v)
    ELSE IF ~m_readingOfImmutableAllowed
    THEN <<ErrRead>>
    ELSE <<>>

\* a checker that records a write only while initialization is allowed
InitializedAfterUse_WhenAllowed(v, expression) ==
    IF /\ IsImmutableStateVariable(v) /\ IsPlainWrite(expression)
       /\ m_initializationOfImmutableAllowed
    THEN m_initializedStateVariables \cup {v}
    ELSE m_initializedStateVariables

\* a checker that records a write only when its placement is legal
InitializedAfterUse_OnlyLegal(v, expression) ==
    IF /\ IsImmutableStateVariable(v) /\ IsPlainWrite(expression)
       /\ PlacementViolation(v) = <<>>
    THEN m_initializedStateVariables \cup {v}
    ELSE m_initializedStateVariables

\* m_initializedStateVariables after analyseVariableDeclaration
InitializedAfterUse(v, expression) ==
    IF IsImmutableStateVariable(v) /\ IsPlainWrite(expression)
    THEN m_initializedStateVariables \cup {v}
    ELSE m_initializedStateVariables

analyseVariableDeclaration(v, expression, loc) ==
    /\ m_errorReporter' = m_errorReporter \o
           [i \in 1..Len(UseViolations(v, expression)) |->
               TypeError(loc, UseViolations(v, expression)[i], "")]
    /\ m_initializedStateVariables' = InitializedAfterUse(v, expression)
    /\ uses' = IF IsImmutableStateVariable(v)
               THEN Append(uses, [var |-> v, loc |-> loc,
                                  kind |-> IF IsPlainWrite(expression)
                                           THEN "write" ELSE "read"])
               ELSE uses

(***************************************************************************)
(* checkAllVariablesInitialized                                            *)
(***************************************************************************)
IsUninitialized(varDecl) ==
    VariableDeclaration(varDecl).immutable /\ varDecl \notin m_initializedStateVariables

\* a checker that looks at the variables the analysed contract declares
\* itself, not at the inherited ones
Uninitialized_DeclaredOnly ==
    SelectSeq(StateVariablesOf(m_currentContract), IsUninitialized)

Uninitialized ==
    SelectSeq(stateVariablesIncludingInherited, IsUninitialized)

checkAllVariablesInitialized(loc) ==
    /\ m_errorReporter' = m_errorReporter \o
           [i \in 1..Len(Uninitialized) |-> TypeError(loc, ErrEnds, Uninitialized[i])]
    /\ checks' = Append(checks, [loc |-> loc, usesBefore |-> Len(uses)])

(***************************************************************************)
(* visitCallable                                                           *)
(***************************************************************************)
\* a visitCallable that walks on every request
IsFirstVisit_Always(callable) == TRUE

\* m_visitedCallables.emplace(_callable).second
IsFirstVisit(callable) == callable \notin m_visitedCallables

(***************************************************************************)
(* History of the run, kept for the properties below; no action reads it.  *)
(*   requests  one entry per call of visitCallable                         *)
(*   walks     one entry per call of analyseCallable                       *)
(*   uses      one entry per use of an immutable that                      *)
(*             analyseVariableDeclaration judges (kind "write" for a plain *)
(*             write, "read" otherwise), and one per inline initializer    *)
(*             recorded at line 35 (kind "inline")                         *)
(*   checks    one entry per call of checkAllVariablesInitialized: where,  *)
(*             and how many uses had been judged before it                 *)
(*   starts    one entry per iteration of a loop of analyze(): the phase,  *)
(*             the state variable or contract the iteration is for, and    *)
(*             the scoped flags it starts with                             *)
(*   scopes    one entry per if statement, while statement and callable    *)
(*             whose traversal has begun: the scoped flags on entry, and,  *)
(*             once its traversal is over, the scoped flags then           *)
(***************************************************************************)
Request(callable, loc) ==
    [callable |-> callable, from |-> loc, phase |-> pc,
     first |-> IsFirstVisit(callable)]
Walk(callable) ==
    [callable |-> callable, phase |-> pc,
     readingAllowed |-> m_readingOfImmutableAllowed,
     initializationAllowed |-> m_initializationOfImmutableAllowed,
     inBranch |-> m_inBranch, inLoop |-> m_inLoop]

Start(of) ==
    [phase |-> pc, of |-> of, inBranch |-> m_inBranch, inLoop |-> m_inLoop,
     currentConstructor |-> m_currentConstructor]

ScopedFlags ==
    [inBranch |-> m_inBranch, inLoop |-> m_inLoop,
     currentConstructor |-> m_currentConstructor,
     initializationAllowed |-> m_initializationOfImmutableAllowed]
\* the traversal of a statement or callable begins: what is left on the
\* stack below it is Rest
Enter(of) ==
    Append(scopes, [of |-> of, below |-> Len(Rest), entry |-> ScopedFlags, exit |-> <<>>])
\* the innermost traversal that is not over
Innermost ==
    CHOOSE i \in 1..Len(scopes) :
        /\ scopes[i].exit = <<>>
        /\ \A j \in (i + 1)..Len(scopes) : scopes[j].exit # <<>>
\* ... is over, with the flags and the stack the step leaves
Leave ==
    [scopes EXCEPT ![Innermost].exit = <<[flags |-> ScopedFlags', below |-> Len(stack')]>>]

flags == <<m_readingOfImmutableAllowed, m_initializationOfImmutableAllowed,
           m_inBranch, m_inLoop, m_currentConstructor>>
sets == <<m_initializedStateVariables, m_visitedCallables>>
history == <<requests, walks>>
log == <<uses, checks>>

(***************************************************************************)
(* analyze(), lines 26-63.  Init is the state after lines 28-29.           *)
(***************************************************************************)
InitialState ==
    /\ pc = "phase1" /\ idx = 1 /\ stack = <<>>
    /\ m_readingOfImmutableAllowed = FALSE
    /\ m_initializationOfImmutableAllowed = TRUE
    /\ m_inBranch = FALSE /\ m_inLoop = FALSE
    /\ m_currentConstructor = nullptr
    /\ m_initializedStateVariables = {}
    /\ m_visitedCallables = {}
    /\ m_errorReporter = <<>>
    /\ requests = <<>> /\ walks = <<>> /\ uses = <<>> /\ checks = <<>>
    /\ starts = <<>> /\ scopes = <<>>

\* lines 31-36, one state variable
AnalyzeInlineInitializer ==
    /\ pc = "phase1" /\ stack = <<>>
    /\ idx <= Len(stateVariablesIncludingInherited)
    /\ LET stateVar == stateVariablesIncludingInherited[idx]
           value == prog.value[stateVar]
       IN  stack' = IF value # <<>>
                    THEN << AcceptFrame(value[1], Location(stateVar, <<>>)),
                            RestFrame("emplace", Literal, stateVar, NoLocation, FALSE) >>
                    ELSE <<>>
    /\ starts' = Append(starts, Start(stateVariablesIncludingInherited[idx]))
    /\ idx' = idx + 1
    /\ UNCHANGED <<prog, scopes, log, pc, flags, sets, m_errorReporter, history>>

\* line 35: solAssert(m_initializedStateVariables.emplace(stateVar).second, "")
EmplaceInlineInitialized ==
    /\ Executing("emplace")
    /\ IF Top.decl \in m_initializedStateVariables
       THEN /\ pc' = "assertionFailed"
            /\ stack' = <<>>
            /\ UNCHANGED <<m_initializedStateVariables, uses>>
       ELSE /\ m_initializedStateVariables' = m_initializedStateVariables \cup {Top.decl}
            /\ uses' = Append(uses, [var |-> Top.decl, loc |-> Location(Top.decl, <<>>),
                                     kind |-> "inline"])
            /\ Pop
            /\ UNCHANGED pc
    /\ UNCHANGED <<prog, starts, scopes, checks, idx, flags, m_visitedCallables, m_errorReporter, history>>

\* line 38
AnalyzeBeginConstructors ==
    /\ pc = "phase1" /\ stack = <<>>
    /\ idx > Len(stateVariablesIncludingInherited)
    /\ pc' = "phase2" /\ idx' = 1
    /\ UNCHANGED <<prog, starts, scopes, log, stack, flags, sets, m_errorReporter, history>>

\* lines 40-42, one contract
AnalyzeConstructor ==
    /\ pc = "phase2" /\ stack = <<>>
    /\ idx <= Len(linearizeContracts)
    /\ LET contract == linearizeContracts[idx]
       IN  stack' = IF constructor(contract) # nullptr
                    THEN <<VisitCallableFrame(constructor(contract), NoLocation)>>
                    ELSE <<>>
    /\ starts' = Append(starts, Start(linearizeContracts[idx]))
    /\ idx' = idx + 1
    /\ UNCHANGED <<prog, scopes, log, pc, flags, sets, m_errorReporter, history>>

\* line 44
AnalyzeBeginBaseArguments ==
    /\ pc = "phase2" /\ stack = <<>>
    /\ idx > Len(linearizeContracts)
    /\ pc' = "phase3" /\ idx' = 1
    /\ m_initializationOfImmutableAllowed' = FALSE
    /\ UNCHANGED <<prog, starts, scopes, log, stack, m_readingOfImmutableAllowed, m_inBranch, m_inLoop,
                   m_currentConstructor, sets, m_errorReporter, history>>

\* lines 46-49, one contract: the argument lists of its inheritance specifiers
AnalyzeBaseArguments ==
    /\ pc = "phase3" /\ stack = <<>>
    /\ idx <= Len(linearizeContracts)
    /\ LET contract == linearizeContracts[idx]
           specs == prog.baseContracts[contract]
       IN  stack' = Flatten([k \in 1..Len(specs) |->
                        IF specs[k] = <<>> THEN <<>>
                        ELSE ListAccept(specs[k][1], Location(contract, <<k>>))])
    /\ starts' = Append(starts, Start(linearizeContracts[idx]))
    /\ idx' = idx + 1
    /\ UNCHANGED <<prog, scopes, log, pc, flags, sets, m_errorReporter, history>>

\* line 51
AnalyzeBeginFunctions ==
    /\ pc = "phase3" /\ stack = <<>>
    /\ idx > Len(linearizeContracts)
    /\ pc' = "phase4" /\ idx' = 1
    /\ m_readingOfImmutableAllowed' = TRUE
    /\ UNCHANGED <<prog, starts, scopes, log, stack, m_initializationOfImmutableAllowed, m_inBranch, m_inLoop,
                   m_currentConstructor, sets, m_errorReporter, history>>

\* lines 53-60, one contract: its functions, then its modifiers
AnalyzeFunctions ==
    /\ pc = "phase4" /\ stack = <<>>
    /\ idx <= Len(linearizeContracts)
    /\ LET contract == linearizeContracts[idx]
           decls == prog.definedFunctions[contract] \o prog.functionModifiers[contract]
       IN  stack' = [k \in 1..Len(decls) |-> VisitCallableFrame(decls[k], NoLocation)]
    /\ starts' = Append(starts, Start(linearizeContracts[idx]))
    /\ idx' = idx + 1
    /\ UNCHANGED <<prog, scopes, log, pc, flags, sets, m_errorReporter, history>>

\* line 62
AnalyzeComplete ==
    /\ pc = "phase4" /\ stack = <<>>
    /\ idx > Len(linearizeContracts)
    /\ checkAllVariablesInitialized(Location(m_currentContract, <<>>))
    /\ pc' = "done"
    /\ UNCHANGED <<prog, starts, scopes, uses, idx, stack, flags, sets, history>>

(***************************************************************************)
(* The visitor.                                                            *)
(***************************************************************************)
\* a node without a visit() of its own: ASTConstVisitor's default returns
\* true and accept() walks the children
AcceptNode ==
    /\ Accepting("Node")
    /\ Push(ChildFrames(Top.node, Top.loc))
    /\ UNCHANGED <<prog, starts, scopes, log, pc, idx, flags, sets, m_errorReporter, history>>

\* visit(Identifier), lines 128-136
VisitIdentifier ==
    /\ Accepting("Identifier")
    /\ LET decl == Top.node.referencedDeclaration
       IN  IF IsCallableDeclaration(decl)
           THEN /\ Push(<<VisitCallableFrame(findFinalOverride(decl), Top.loc)>>)
                /\ UNCHANGED <<m_errorReporter, m_initializedStateVariables, uses>>
           ELSE IF IsVariableDeclaration(decl)
           THEN /\ analyseVariableDeclaration(decl, Top.node, Top.loc)
                /\ Pop
           ELSE /\ Pop
                /\ UNCHANGED <<m_errorReporter, m_initializedStateVariables, uses>>
    /\ UNCHANGED <<prog, starts, scopes, checks, pc, idx, flags, m_visitedCallables, history>>

\* a visitor without the skip of lines 77-82
IsSelectorOfFunction_Unskipped(memberAccess) == FALSE

\* lines 77-82: the access is skipped whole
IsSelectorOfFunction(memberAccess) ==
    /\ memberAccess.memberName = "selector"
    /\ memberAccess.expressionIsFunctionType
    /\ memberAccess.typeIsFixedBytes

\* visit(MemberAccess), lines 75-84
VisitMemberAccess ==
    /\ Accepting("MemberAccess")
    /\ IF IsSelectorOfFunction(Top.node)
       THEN Pop
       ELSE Push(<< AcceptFrame(Top.node.children[1], ChildLocation(Top.loc, 1)),
                    RestFrame("resolveMember", Top.node, "", Top.loc, FALSE) >>)
    /\ UNCHANGED <<prog, starts, scopes, log, pc, idx, flags, sets, m_errorReporter, history>>

\* lines 88-92: the type is an internal function type that has a declaration
IsInternalFunctionWithDeclaration(memberAccess) ==
    /\ memberAccess.functionKind \in {"Internal", "Declaration"}
    /\ memberAccess.declaration # ""

\* visit(MemberAccess), lines 86-95, after the operand has been walked
ResolveMemberAccess ==
    /\ Executing("resolveMember")
    /\ LET decl == Top.node.referencedDeclaration
       IN  IF IsVariableDeclaration(decl)
           THEN /\ analyseVariableDeclaration(decl, Top.node, Top.loc)
                /\ Pop
           ELSE IF IsInternalFunctionWithDeclaration(Top.node)
           THEN /\ Push(<<VisitCallableFrame(Top.node.declaration, Top.loc)>>)
                /\ UNCHANGED <<m_errorReporter, m_initializedStateVariables, uses>>
           ELSE /\ Pop
                /\ UNCHANGED <<m_errorReporter, m_initializedStateVariables, uses>>
    /\ UNCHANGED <<prog, starts, scopes, checks, pc, idx, flags, m_visitedCallables, history>>

\* a visitor that raises m_inBranch before the condition, as the one of
\* the while statement raises m_inLoop
IfStatementSteps_BranchFirst(_ifStatement, loc) ==
    <<RestFrame("enterBranch", Literal, "", NoLocation, FALSE),
      AcceptFrame(_ifStatement.children[1], ChildLocation(loc, 1))>>
    \o [i \in 1..(Len(_ifStatement.children) - 1) |->
           AcceptFrame(_ifStatement.children[i + 1], ChildLocation(loc, i + 1))]
    \o <<RestFrame("leaveBranch", Literal, "", NoLocation, m_inBranch)>>

\* lines 100-110: the condition, m_inBranch = true, the arms, and the
\* restoring of prevInBranch
IfStatementSteps(_ifStatement, loc) ==
    <<AcceptFrame(_ifStatement.children[1], ChildLocation(loc, 1)),
      RestFrame("enterBranch", Literal, "", NoLocation, FALSE)>>
    \o [i \in 1..(Len(_ifStatement.children) - 1) |->
           AcceptFrame(_ifStatement.children[i + 1], ChildLocation(loc, i + 1))]
    \o <<RestFrame("leaveBranch", Literal, "", NoLocation, m_inBranch)>>

\* visit(IfStatement), lines 100-102
VisitIfStatement ==
    /\ Accepting("IfStatement")
    /\ scopes' = Enter("if")
    /\ Push(IfStatementSteps(Top.node, Top.loc))
    /\ UNCHANGED <<prog, starts, log, pc, idx, flags, sets, m_errorReporter, history>>

\* line 104
EnterBranch ==
    /\ Executing("enterBranch")
    /\ m_inBranch' = TRUE
    /\ Pop
    /\ UNCHANGED <<prog, starts, scopes, log, pc, idx, m_readingOfImmutableAllowed,
                   m_initializationOfImmutableAllowed, m_inLoop, m_currentConstructor,
                   sets, m_errorReporter, history>>

\* line 110
LeaveBranch ==
    /\ Executing("leaveBranch")
    /\ m_inBranch' = Top.flag
    /\ Pop
    /\ UNCHANGED <<prog, starts, log, pc, idx, m_readingOfImmutableAllowed,
                   m_initializationOfImmutableAllowed, m_inLoop, m_currentConstructor,
                   sets, m_errorReporter, history>>
    /\ scopes' = Leave

\* visit(WhileStatement), lines 117-121
VisitWhileStatement ==
    /\ Accepting("WhileStatement")
    /\ scopes' = Enter("while")
    /\ m_inLoop' = TRUE
    /\ Push(ChildFrames(Top.node, Top.loc)
            \o <<RestFrame("leaveLoop", Literal, "", NoLocation, m_inLoop)>>)
    /\ UNCHANGED <<prog, starts, log, pc, idx, m_readingOfImmutableAllowed,
                   m_initializationOfImmutableAllowed, m_inBranch, m_currentConstructor,
                   sets, m_errorReporter, history>>

\* line 123
LeaveLoop ==
    /\ Executing("leaveLoop")
    /\ m_inLoop' = Top.flag
    /\ Pop
    /\ UNCHANGED <<prog, starts, log, pc, idx, m_readingOfImmutableAllowed,
                   m_initializationOfImmutableAllowed, m_inBranch, m_currentConstructor,
                   sets, m_errorReporter, history>>
    /\ scopes' = Leave

\* visit(Return), lines 138-149: outside a constructor the default walk of
\* the children; inside one the expression, then the completeness check
VisitReturn ==
    /\ Accepting("Return")
    /\ IF m_currentConstructor = nullptr
       THEN Push(ChildFrames(Top.node, Top.loc))
       ELSE Push(ChildFrames(Top.node, Top.loc)
                 \o <<RestFrame("checkAtReturn", Literal, "", Top.loc, FALSE)>>)
    /\ UNCHANGED <<prog, starts, scopes, log, pc, idx, flags, sets, m_errorReporter, history>>

\* line 146
CheckAtReturn ==
    /\ Executing("checkAtReturn")
    /\ checkAllVariablesInitialized(Top.loc)
    /\ Pop
    /\ UNCHANGED <<prog, starts, scopes, uses, pc, idx, flags, sets, history>>

\* a visitCallable that looks the callable up without inserting it
VisitedAfter_Unrecorded(callable) == m_visitedCallables

\* m_visitedCallables after visitCallable(callable)
VisitedAfter(callable) == m_visitedCallables \cup {callable}

\* visitCallable, lines 238-245
VisitCallable ==
    /\ Executing("visitCallable")
    /\ requests' = Append(requests, Request(Top.decl, Top.loc))
    /\ m_visitedCallables' = VisitedAfter(Top.decl)
    /\ IF IsFirstVisit(Top.decl)
       THEN Push(<<AcceptCallableFrame(Top.decl)>>)
       ELSE Pop
    /\ UNCHANGED <<prog, starts, scopes, log, pc, idx, flags, m_initializedStateVariables, m_errorReporter,
                   walks>>

\* an analyseCallable that takes every function for a constructor
ConstructorEntered_AnyFunction(callable) ==
    IF CallableDeclaration(callable).kind = "function" THEN callable ELSE nullptr

\* m_currentConstructor after lines 153-159
ConstructorEntered(callable) ==
    IF /\ CallableDeclaration(callable).kind = "function"
       /\ CallableDeclaration(callable).isConstructor
    THEN callable
    ELSE nullptr

\* analyseCallable of a FunctionDefinition, lines 153-165 (and the visit of
\* lines 65-68 that calls it)
AnalyseFunction ==
    /\ Executing("acceptCallable")
    /\ CallableDeclaration(Top.decl).kind = "function"
    /\ scopes' = Enter("callable")
    /\ walks' = Append(walks, Walk(Top.decl))
    /\ m_currentConstructor' = ConstructorEntered(Top.decl)
    /\ m_initializationOfImmutableAllowed' = FALSE
    /\ Push(ListAccept(prog.modifiers[Top.decl], Location(Top.decl, <<0>>))
            \o <<RestFrame("restoreInitialization", Literal, Top.decl, NoLocation,
                           m_initializationOfImmutableAllowed),
                 RestFrame("leaveCallable", Literal, m_currentConstructor, NoLocation, FALSE)>>)
    /\ UNCHANGED <<prog, starts, log, pc, idx, m_readingOfImmutableAllowed, m_inBranch, m_inLoop,
                   sets, m_errorReporter, requests>>

\* an analyseCallable that allows initialization again after the modifier
\* invocations, whatever held before them
InitializationAfterModifiers_Allowed(previousInitAllowed) == TRUE

\* line 167: m_initializationOfImmutableAllowed = previousInitAllowed
InitializationAfterModifiers(previousInitAllowed) == previousInitAllowed

\* lines 167-170: back from the modifier invocations, on to the body
RestoreInitialization ==
    /\ Executing("restoreInitialization")
    /\ m_initializationOfImmutableAllowed' = InitializationAfterModifiers(Top.flag)
    /\ Push([i \in 1..Len(prog.body[Top.decl]) |->
                AcceptFrame(prog.body[Top.decl][i], Location(Top.decl, <<>>))])
    /\ UNCHANGED <<prog, starts, scopes, log, pc, idx, m_readingOfImmutableAllowed, m_inBranch, m_inLoop,
                   m_currentConstructor, sets, m_errorReporter, history>>

\* analyseCallable of a ModifierDefinition, lines 153-154 and 172-173 (and
\* the visit of lines 70-73 that calls it)
AnalyseModifier ==
    /\ Executing("acceptCallable")
    /\ CallableDeclaration(Top.decl).kind = "modifier"
    /\ scopes' = Enter("callable")
    /\ walks' = Append(walks, Walk(Top.decl))
    /\ m_currentConstructor' = nullptr
    /\ Push([i \in 1..Len(prog.body[Top.decl]) |->
                AcceptFrame(prog.body[Top.decl][i], Location(Top.decl, <<>>))]
            \o <<RestFrame("leaveCallable", Literal, m_currentConstructor, NoLocation, FALSE)>>)
    /\ UNCHANGED <<prog, starts, log, pc, idx, m_readingOfImmutableAllowed,
                   m_initializationOfImmutableAllowed, m_inBranch, m_inLoop,
                   sets, m_errorReporter, requests>>

\* an analyseCallable that clears the marker where it should restore it
ConstructorAfterCallable_Cleared(prevConstructor) == nullptr

\* line 175: m_currentConstructor = prevConstructor
ConstructorAfterCallable(prevConstructor) == prevConstructor

\* line 175
LeaveCallable ==
    /\ Executing("leaveCallable")
    /\ m_currentConstructor' = ConstructorAfterCallable(Top.decl)
    /\ Pop
    /\ UNCHANGED <<prog, starts, log, pc, idx, m_readingOfImmutableAllowed,
                   m_initializationOfImmutableAllowed, m_inBranch, m_inLoop,
                   sets, m_errorReporter, history>>
    /\ scopes' = Leave

Next ==
    \/ AnalyzeInlineInitializer
    \/ EmplaceInlineInitialized
    \/ AnalyzeBeginConstructors
    \/ AnalyzeConstructor
    \/ AnalyzeBeginBaseArguments
    \/ AnalyzeBaseArguments
    \/ AnalyzeBeginFunctions
    \/ AnalyzeFunctions
    \/ AnalyzeComplete
    \/ AcceptNode
    \/ VisitIdentifier
    \/ VisitMemberAccess
    \/ ResolveMemberAccess
    \/ VisitIfStatement
    \/ EnterBranch
    \/ LeaveBranch
    \/ VisitWhileStatement
    \/ LeaveLoop
    \/ VisitReturn
    \/ CheckAtReturn
    \/ VisitCallable
    \/ AnalyseFunction
    \/ RestoreInitialization
    \/ AnalyseModifier
    \/ LeaveCallable

(***************************************************************************)
(* The units analysed.  Three families of programs over the declarations   *)
(* above; Init draws one of them.                                          *)
(***************************************************************************)
Program(lin, value, funcs, mods, bases, modifiers, body) ==
    [linearizedBaseContracts |-> lin, value |-> value,
     definedFunctions |-> funcs, functionModifiers |-> mods,
     baseContracts |-> bases, modifiers |-> modifiers, body |-> body]

NoValue == [v \in Variables |-> <<>>]
NoCallables == [c \in Contracts |-> <<>>]
\* "contract D is B": one inheritance specifier, without arguments
PlainInheritance == [c \in Contracts |-> IF c = "D" THEN << <<>> >> ELSE <<>>]
NoModifiers == [c \in Callables |-> <<>>]
EmptyBodies == [c \in Callables |-> <<Block(<<>>)>>]

\* 1. Shapes of constructor bodies: D's constructor is any list of at most
\*    MaxBodyLen of these statements, B's is one of four.
ConstructorStatements ==
    { Assign("y"), Assign("x"), Return, Ref("y"), CompoundTarget("y"),
      IfStatement(Literal, Assign("y")),
      IfElseStatement(Ref("z"), Assign("y"), Return),
      WhileStatement(Literal, Assign("y")),
      IfStatement(Literal, WhileStatement(Literal, Assign("y"))),
      WhileStatement(Ref("l"), IfStatement(Literal, Assign("y"))) }

BaseConstructorBodies ==
    { Block(<<Assign("x")>>), Block(<<Assign("x"), Return>>), Block(<<>>),
      Block(<<IfStatement(Literal, Assign("y")), WhileStatement(Literal, Assign("y"))>>) }

ConstructorPrograms ==
    { Program(<<"D", "B">>,
              [NoValue EXCEPT !["x"] = vx],
              [B |-> <<"B.ctor">>, D |-> <<"D.ctor">>],
              NoCallables, PlainInheritance, NoModifiers,
              [EmptyBodies EXCEPT !["B.ctor"] = <<bb>>, !["D.ctor"] = <<Block(bd)>>]) :
        vx \in {<<>>, <<Literal>>},
        bb \in BaseConstructorBodies,
        bd \in SeqsUpTo(ConstructorStatements, MaxBodyLen) }

\* 2. Call graphs: how B's constructor mentions f, what the bodies of f, its
\*    override and g do, whether D overrides f and m, what reaches g, and
\*    whether f carries the modifier m while m's body calls f.
CallSites ==
    { Ref("B.f"), InternalMember("B", "B.f"), Selector("B.f"), ExternalMember("B.f") }
BaseFunctionBodies ==
    { Ref("x"), Assign("x"), Ref("B.f"), ReturnValue(Ref("x")) }
OverrideBodies ==
    { Ref("y"), InternalMember("B", "B.f"), Ref("D.g") }
HelperBodies ==
    { Ref("y"), Ref("B.f"), FieldNamedSelector("l"), Assign("y") }

CallPrograms ==
    { Program(<<"D", "B">>,
              [NoValue EXCEPT !["y"] = vy],
              [B |-> <<"B.ctor", "B.f">>, D |-> <<"D.ctor">> \o ov \o <<"D.g">>],
              [B |-> <<"B.m">>, D |-> IF ov = <<>> THEN <<>> ELSE <<"D.m">>],
              PlainInheritance,
              [NoModifiers EXCEPT !["B.ctor"] = <<Composite(<<Ref("B.m")>>)>>,
                                  !["B.f"] = fm],
              [EmptyBodies EXCEPT
                  !["B.ctor"] = <<Block(<<Assign("x"), site>>)>>,
                  !["B.m"] = <<IF fm = <<>> THEN Block(<<>>) ELSE Block(<<Ref("B.f")>>)>>,
                  !["D.ctor"] = <<Block(<<Assign("y")>>)>>,
                  !["B.f"] = <<Block(<<bf>>)>>,
                  !["D.f"] = <<Block(<<df>>)>>,
                  !["D.g"] = <<Block(<<dg>>)>>,
                  !["D.m"] = <<Block(<<Ref("x")>>)>>]) :
        vy \in {<<>>, <<Ref("D.g")>>},
        ov \in {<<>>, <<"D.fu", "D.f">>},
        fm \in {<<>>, <<Composite(<<Ref("B.m")>>)>>},
        site \in CallSites,
        bf \in BaseFunctionBodies,
        df \in OverrideBodies,
        dg \in HelperBodies }

\* 3. Arguments: what "contract D is B(...)" and the modifier invocations
\*    of D's constructor hold, and what D's constructor and g do when y is
\*    not simply assigned in the constructor's body.
BaseArguments ==
    { <<>>, << <<Assign("y")>> >>, << <<Ref("x"), Ref("D.g")>> >> }
ConstructorInvocations ==
    { <<>>, <<Composite(<<Ref("B.m"), Assign("y")>>)>>,
      <<Composite(<<Ref("B"), Ref("y"), Assign("x")>>)>> }
DerivedConstructorBodies ==
    { Block(<<>>), Block(<<Assign("y")>>), Block(<<Ref("D.g"), ReturnValue(Assign("y"))>>),
      Block(<<IfStatement(Literal, WhileStatement(Literal, Ref("D.g")))>>) }
WriterBodies ==
    { Assign("y"), IfElseStatement(Ref("y"), Return, Assign("y")),
      WhileStatement(Ref("x"), ReturnValue(Assign("x"))) }

ArgumentPrograms ==
    { Program(<<"D", "B">>,
              NoValue,
              [B |-> <<"B.ctor">>, D |-> <<"D.ctor", "D.g">>],
              [B |-> <<"B.m">>, D |-> <<>>],
              [c \in Contracts |-> IF c = "D" THEN <<ba>> ELSE <<>>],
              [NoModifiers EXCEPT !["D.ctor"] = dm],
              [EmptyBodies EXCEPT
                  !["B.ctor"] = <<Block(<<Assign("x")>>)>>,
                  !["D.ctor"] = <<db>>,
                  !["D.g"] = <<Block(<<dg>>)>>]) :
        ba \in BaseArguments,
        dm \in ConstructorInvocations,
        db \in DerivedConstructorBodies,
        dg \in WriterBodies }

Programs == ConstructorPrograms \cup CallPrograms \cup ArgumentPrograms

Init == prog \in Programs /\ InitialState

Spec == Init /\ [][Next]_vars

\* analyze() is one sequential computation: it runs on while it has a step
FairSpec == Spec /\ WF_vars(Next)

\* the run is over: analyze() returned, or the assertion of line 35 threw
Done == pc \in {"done", "assertionFailed"}

\* the analysis never stops short of its end
NeverStuck == Done \/ ENABLED Next

(***************************************************************************)
(* The program text, for stating the properties: every node of the unit    *)
(* with its location and its lexical context.                              *)
(*   owner, part   the callable (or variable, or contract) the node        *)
(*                 belongs to, and whether it stands in its body, its      *)
(*                 modifier invocations, an inline initializer ("value")   *)
(*                 or an inheritance specifier ("bases")                   *)
(*   inIfArm       below the true or false statement of an if              *)
(*   inIfCondition below the condition of an if                            *)
(*   inWhile       below the condition or the body of a while              *)
(*   inWhileBody   below the body of a while                               *)
(*   inSelector    below a skipped f.selector access                       *)
(***************************************************************************)
TopContext ==
    [inIfArm |-> FALSE, inIfCondition |-> FALSE, inWhile |-> FALSE,
     inWhileBody |-> FALSE, inSelector |-> FALSE]

ChildContext(node, i, ctx) ==
    [inIfArm |-> ctx.inIfArm \/ (node.kind = "IfStatement" /\ i >= 2),
     inIfCondition |-> ctx.inIfCondition \/ (node.kind = "IfStatement" /\ i = 1),
     inWhile |-> ctx.inWhile \/ node.kind = "WhileStatement",
     inWhileBody |-> ctx.inWhileBody \/ (node.kind = "WhileStatement" /\ i = 2),
     inSelector |-> ctx.inSelector \/
                    (node.kind = "MemberAccess" /\ IsSelectorOfFunction(node))]

RECURSIVE NodesBelow(_, _, _, _, _)
NodesBelow(node, loc, owner, part, ctx) ==
    {[node |-> node, loc |-> loc, owner |-> owner, part |-> part, ctx |-> ctx]}
    \cup UNION { NodesBelow(node.children[i], ChildLocation(loc, i), owner, part,
                            ChildContext(node, i, ctx)) :
                 i \in 1..Len(node.children) }

\* the callables the hierarchy declares
DeclaredCallables ==
    UNION { {prog.definedFunctions[c][i] : i \in 1..Len(prog.definedFunctions[c])}
            \cup {prog.functionModifiers[c][i] : i \in 1..Len(prog.functionModifiers[c])} :
            c \in {linearizedBaseContracts[k] : k \in 1..Len(linearizedBaseContracts)} }

Constructors ==
    {c \in DeclaredCallables : CallableDeclaration(c).isConstructor}

VisibleImmutables ==
    {stateVariablesIncludingInherited[i] : i \in 1..Len(stateVariablesIncludingInherited)}
    \cap {v \in Variables : IsImmutableStateVariable(v)}

Sites ==
    UNION { IF prog.value[v] = <<>> THEN {}
            ELSE NodesBelow(prog.value[v][1], Location(v, <<>>), v, "value", TopContext) :
            v \in {stateVariablesIncludingInherited[i] :
                      i \in 1..Len(stateVariablesIncludingInherited)} }
    \cup UNION { UNION { NodesBelow(prog.modifiers[c][i], Location(c, <<0, i>>), c,
                                    "modifiers", TopContext) :
                         i \in 1..Len(prog.modifiers[c]) }
                 \cup UNION { NodesBelow(prog.body[c][i], Location(c, <<>>), c, "body",
                                         TopContext) :
                              i \in 1..Len(prog.body[c]) } :
                 c \in DeclaredCallables }
    \cup UNION { UNION { IF prog.baseContracts[c][k] = <<>> THEN {}
                         ELSE UNION { NodesBelow(prog.baseContracts[c][k][1][i],
                                                 Location(c, <<k, i>>), c, "bases",
                                                 TopContext) :
                                      i \in 1..Len(prog.baseContracts[c][k][1]) } :
                         k \in 1..Len(prog.baseContracts[c]) } :
                 c \in {linearizedBaseContracts[k] : k \in 1..Len(linearizedBaseContracts)} }

\* the node names an immutable state variable
IsImmutableUse(node) ==
    /\ node.kind \in {"Identifier", "MemberAccess"}
    /\ IsVariableDeclaration(node.referencedDeclaration)
    /\ IsImmutableStateVariable(node.referencedDeclaration)

PlainWrites(v) ==
    {s \in Sites : /\ IsImmutableUse(s.node) /\ s.node.referencedDeclaration = v
                   /\ IsPlainWrite(s.node)}

\* the uses that are no plain writes
Reads == {s \in Sites : IsImmutableUse(s.node) /\ ~IsPlainWrite(s.node)}

\* the callable a mention leads the walk to: an identifier to the final
\* override of what it names, a member access to the internal function it
\* denotes; nothing below a selector access
CallTargets(s) ==
    IF s.ctx.inSelector
    THEN {}
    ELSE IF s.node.kind = "Identifier" /\ IsCallableDeclaration(s.node.referencedDeclaration)
    THEN {findFinalOverride(s.node.referencedDeclaration)}
    ELSE IF /\ s.node.kind = "MemberAccess" /\ ~IsSelectorOfFunction(s.node)
            /\ ~IsVariableDeclaration(s.node.referencedDeclaration)
            /\ IsInternalFunctionWithDeclaration(s.node)
    THEN {s.node.declaration}
    ELSE {}

CalledFrom(owners, parts) ==
    UNION {CallTargets(s) : s \in {t \in Sites : t.owner \in owners /\ t.part \in parts}}

RECURSIVE CallClosure(_)
CallClosure(S) ==
    LET T == S \cup CalledFrom(S, {"body", "modifiers"})
    IN  IF T = S THEN S ELSE CallClosure(T)

\* the callables called, directly or not, from a constructor of the hierarchy
CalledFromConstructors == CallClosure(Constructors)
\* the same, with the inline initializers and base constructor arguments
CalledDuringConstruction ==
    CallClosure(Constructors \cup CalledFrom(Variables \cup Contracts, {"value", "bases"}))

ErrorsAt(loc) == SelectSeq(m_errorReporter, LAMBDA e : e.location = loc)
Messages == {m_errorReporter[i].message : i \in 1..Len(m_errorReporter)}

(***************************************************************************)
(* C1.  A unit in which every visible immutable is written exactly once,   *)
(* by its inline initializer or by one assignment directly in the body of  *)
(* the constructor of its own contract, outside every if and while, and in *)
(* which nothing that runs during construction reads an immutable, gets no *)
(* violation, also when a constructor contains return statements.  It is   *)
(* stated here for the units whose return statements end the constructor   *)
(* body they stand in, so that every return follows the assignments of its *)
(* own constructor.                                                        *)
(***************************************************************************)
WrittenExactlyOnce(v) ==
    IF prog.value[v] # <<>>
    THEN PlainWrites(v) = {}
    ELSE /\ Cardinality(PlainWrites(v)) = 1
         /\ \A s \in PlainWrites(v) :
               /\ s.part = "body"
               /\ s.owner = constructor(VariableDeclaration(v).contract)
               /\ ~s.ctx.inIfArm /\ ~s.ctx.inIfCondition /\ ~s.ctx.inWhile

NothingReadDuringConstruction ==
    \A s \in Reads :
        /\ s.part \notin {"value", "bases"}
        /\ s.owner \notin CalledDuringConstruction

WellFormed ==
    /\ \A v \in VisibleImmutables : WrittenExactlyOnce(v)
    /\ NothingReadDuringConstruction

ReturnsEndConstructors ==
    \A s \in Sites :
        (s.node.kind = "Return" /\ s.owner \in Constructors) =>
            /\ s.part = "body"
            /\ Len(s.loc.path) = 1
            /\ s.loc.path[1] = Len(prog.body[s.owner][1].children)

C1_WellFormedUnitHasNoViolation ==
    (Done /\ WellFormed /\ ReturnsEndConstructors) => m_errorReporter = <<>>

\* the part of C1 that holds: no constructor returns
C1_WellFormedWithoutReturn ==
    (Done /\ WellFormed /\ \A s \in Sites : s.node.kind # "Return")
        => (pc = "done" /\ m_errorReporter = <<>>)

(***************************************************************************)
(* C2.  Every use of an immutable that is no plain write and stands in the *)
(* body of a constructor, or of a function or modifier called (through     *)
(* identifiers and member accesses, as CallTargets follows them) from a    *)
(* constructor of the hierarchy, gets exactly one violation, the "cannot   *)
(* be read during contract creation time" one.                             *)
(***************************************************************************)
ReadsDuringConstruction ==
    {s \in Reads : /\ s.part = "body" /\ ~s.ctx.inSelector
                   /\ s.owner \in CalledFromConstructors}

ReportedOnceAs(loc, message) ==
    /\ Len(ErrorsAt(loc)) = 1
    /\ ErrorsAt(loc)[1].message = message

C2_ReadDuringConstructionReported ==
    Done => \A s \in ReadsDuringConstruction : ReportedOnceAs(s.loc, ErrRead)

\* the part of C2 that holds: the runs that analyze() completes
C2_ReadReportedWhenAnalysisCompletes ==
    (pc = "done") => \A s \in ReadsDuringConstruction : ReportedOnceAs(s.loc, ErrRead)

(***************************************************************************)
(* C3.  A function with virtual semantics that a more-derived unit         *)
(* overrides, mentioned in the constructor of a less-derived ancestor: the *)
(* body walked for the mention is the most-derived override, and it is     *)
(* walked with reading forbidden.                                          *)
(***************************************************************************)
Rank(contract) ==
    CHOOSE i \in 1..Len(linearizedBaseContracts) : linearizedBaseContracts[i] = contract

\* d declares what c declares: same kind and name, for functions same types
Redeclares(d, c) ==
    /\ CallableDeclaration(d).kind = CallableDeclaration(c).kind
    /\ CallableDeclaration(d).name = CallableDeclaration(c).name
    /\ CallableDeclaration(c).kind = "function" =>
          /\ CallableDeclaration(d).parameterTypes = CallableDeclaration(c).parameterTypes
          /\ CallableDeclaration(d).returnTypes = CallableDeclaration(c).returnTypes

Overriders(c) == {d \in DeclaredCallables : Redeclares(d, c)}

IsMostDerivedOverride(d, c) ==
    /\ d \in Overriders(c)
    /\ \A e \in Overriders(c) :
          Rank(CallableDeclaration(d).contract) <= Rank(CallableDeclaration(e).contract)

RECURSIVE Descend(_, _)
Descend(node, path) ==
    IF path = <<>> THEN node ELSE Descend(node.children[Head(path)], Tail(path))

\* the node at a location (the inverse of the locations the walk hands out)
NodeAt(loc) ==
    IF loc.root \in Variables
    THEN Descend(prog.value[loc.root][1], loc.path)
    ELSE IF loc.root \in Contracts
    THEN Descend(prog.baseContracts[loc.root][loc.path[1]][1][loc.path[2]],
                 SubSeq(loc.path, 3, Len(loc.path)))
    ELSE IF loc.path # <<>> /\ loc.path[1] = 0
    THEN Descend(prog.modifiers[loc.root][loc.path[2]], SubSeq(loc.path, 3, Len(loc.path)))
    ELSE Descend(prog.body[loc.root][1], loc.path)

\* the function a mention names
Named(node) ==
    IF node.kind = "Identifier" THEN node.referencedDeclaration ELSE node.declaration

LastRequest == requests[Len(requests)]
LastMention == NodeAt(LastRequest.from)

\* the last call of visitCallable was made for a mention, by a node of one
\* of these kinds, of an overridden virtual function in the constructor of
\* an ancestor less derived than an overrider
OverriddenMentionedInAncestorConstructor(kinds) ==
    /\ requests # <<>>
    /\ LastRequest.from # NoLocation
    /\ LastRequest.from.root \in Callables
    /\ CallableDeclaration(LastRequest.from.root).isConstructor
    /\ LastMention.kind \in kinds
    /\ CallableDeclaration(Named(LastMention)).kind = "function"
    /\ CallableDeclaration(Named(LastMention)).virtualSemantics
    /\ \E d \in Overriders(Named(LastMention)) :
          Rank(CallableDeclaration(d).contract) <
              Rank(CallableDeclaration(LastRequest.from.root).contract)

WalkedWithReadingForbidden(callable) ==
    /\ callable \in m_visitedCallables
    /\ \A i \in 1..Len(walks) :
          walks[i].callable = callable => ~walks[i].readingAllowed

\* the claim as made: for identifiers and for member accesses
C3_MentionWalksFinalOverride ==
    OverriddenMentionedInAncestorConstructor({"Identifier", "MemberAccess"}) =>
        /\ IsMostDerivedOverride(LastRequest.callable, Named(LastMention))
        /\ WalkedWithReadingForbidden(LastRequest.callable)

\* amended: it holds for identifiers; a member access walks the function it
\* denotes itself
C3_IdentifierWalksFinalOverride ==
    /\ OverriddenMentionedInAncestorConstructor({"Identifier"}) =>
          /\ IsMostDerivedOverride(LastRequest.callable, Named(LastMention))
          /\ WalkedWithReadingForbidden(LastRequest.callable)
    /\ OverriddenMentionedInAncestorConstructor({"MemberAccess"}) =>
          /\ LastRequest.callable = Named(LastMention)
          /\ WalkedWithReadingForbidden(LastRequest.callable)

\* B's constructor has mentioned f by an identifier and D's f has been walked
C3_Witness ==
    /\ OverriddenMentionedInAncestorConstructor({"Identifier"})
    /\ LastRequest.callable = "D.f"
    /\ \E i \in 1..Len(walks) : walks[i].callable = "D.f"

(***************************************************************************)
(* Lexical facts about a location, for the properties on the uses.         *)
(***************************************************************************)
PartAt(loc) ==
    IF loc.root \in Variables THEN "value"
    ELSE IF loc.root \in Contracts THEN "bases"
    ELSE IF loc.path # <<>> /\ loc.path[1] = 0 THEN "modifiers"
    ELSE "body"

RECURSIVE ContextBelow(_, _, _)
ContextBelow(node, path, ctx) ==
    IF path = <<>> THEN ctx
    ELSE ContextBelow(node.children[Head(path)], Tail(path),
                      ChildContext(node, Head(path), ctx))

ContextAt(loc) ==
    IF loc.root \in Variables
    THEN ContextBelow(prog.value[loc.root][1], loc.path, TopContext)
    ELSE IF loc.root \in Contracts
    THEN ContextBelow(prog.baseContracts[loc.root][loc.path[1]][1][loc.path[2]],
                      SubSeq(loc.path, 3, Len(loc.path)), TopContext)
    ELSE IF loc.path # <<>> /\ loc.path[1] = 0
    THEN ContextBelow(prog.modifiers[loc.root][loc.path[2]],
                      SubSeq(loc.path, 3, Len(loc.path)), TopContext)
    ELSE ContextBelow(prog.body[loc.root][1], loc.path, TopContext)

InConstructorBody(loc) ==
    /\ loc.root \in Callables
    /\ CallableDeclaration(loc.root).isConstructor
    /\ PartAt(loc) = "body"

\* the use stands in the body of the constructor of the contract that
\* declares its variable
InOwnConstructorBody(u) ==
    /\ InConstructorBody(u.loc)
    /\ CallableDeclaration(u.loc.root).contract = VariableDeclaration(u.var).contract

MessagesAt(loc) == [i \in 1..Len(ErrorsAt(loc)) |-> ErrorsAt(loc)[i].message]

\* the earlier recorded writes (assignments and inline initializers) of the
\* variable of use i
EarlierWrites(i) ==
    {j \in 1..(i - 1) : uses[j].var = uses[i].var /\ uses[j].kind \in {"write", "inline"}}

(***************************************************************************)
(* C4.  The second write of an immutable in traversal order, a constructor *)
(* assignment after an inline initializer or after another constructor     *)
(* assignment, is reported "already initialized" and the first write is    *)
(* not.                                                                    *)
(***************************************************************************)
IsConstructorAssignment(u) == u.kind = "write" /\ InConstructorBody(u.loc)

IsSecondWrite(i) ==
    /\ IsConstructorAssignment(uses[i])
    /\ Cardinality(EarlierWrites(i)) = 1
    /\ \A j \in EarlierWrites(i) :
          uses[j].kind = "inline" \/ IsConstructorAssignment(uses[j])

FirstNotReportedAlready(i) ==
    \A j \in EarlierWrites(i) :
        uses[j].kind = "write" =>
            \A k \in 1..Len(ErrorsAt(uses[j].loc)) :
                ErrorsAt(uses[j].loc)[k].message # ErrAlready

\* the claim as made: the second write gets exactly that violation
C4_SecondWriteOnlyAlreadyInitialized ==
    \A i \in 1..Len(uses) :
        IsSecondWrite(i) =>
            /\ MessagesAt(uses[i].loc) = <<ErrAlready>>
            /\ FirstNotReportedAlready(i)

\* the write is one the placement rules accept
IsLegallyPlaced(u) ==
    /\ InOwnConstructorBody(u)
    /\ ~ContextAt(u.loc).inWhile
    /\ ~ContextAt(u.loc).inIfArm

\* amended: the second write gets "already initialized", after the one
\* placement violation of its own if it is misplaced itself
C4_SecondWriteAlreadyInitialized ==
    \A i \in 1..Len(uses) :
        IsSecondWrite(i) =>
            LET ms == MessagesAt(uses[i].loc)
            IN  /\ Len(ms) = IF IsLegallyPlaced(uses[i]) THEN 1 ELSE 2
                /\ ms[Len(ms)] = ErrAlready
                /\ Len(ms) = 2 => ms[1] # ErrAlready
                /\ FirstNotReportedAlready(i)

\* a second write, legally placed, after a first one that was reported as
\* misplaced
C4_Witness ==
    \E i \in 1..Len(uses) :
        /\ IsSecondWrite(i)
        /\ MessagesAt(uses[i].loc) = <<ErrAlready>>
        /\ \E j \in EarlierWrites(i) :
              uses[j].kind = "write" /\ MessagesAt(uses[j].loc) # <<>>

(***************************************************************************)
(* C5.  An immutable that some control path through the constructors       *)
(* leaves unassigned at a return or at the end of construction is reported *)
(* "Construction controlflow ends without initializing all immutable state *)
(* variables".                                                             *)
(*                                                                         *)
(* The control paths, for the claim as made: Flow follows a statement      *)
(* from the set `assigned` of possible answers to "has v been assigned" on *)
(* entry, and yields the possible answers where the statement falls        *)
(* through (out) and at every return it may reach (rets).  Calls are not   *)
(* followed.                                                               *)
(***************************************************************************)
NoFlow == [out |-> {}, rets |-> {}]

IsPlainWriteOf(v, node) ==
    IsImmutableUse(node) /\ node.referencedDeclaration = v /\ IsPlainWrite(node)

RECURSIVE Flow(_, _, _, _)
\* the children from the k-th on, one after the other
FlowFrom(v, node, loc, k, assigned) ==
    IF k > Len(node.children)
    THEN [out |-> assigned, rets |-> {}]
    ELSE LET first == Flow(v, node.children[k], ChildLocation(loc, k), assigned)
             rest  == IF k < Len(node.children)
                      THEN Flow(v, [node EXCEPT !.children =
                                        [i \in 1..k |-> Literal] \o
                                        SubSeq(node.children, k + 1, Len(node.children)),
                                        !.kind = "Rest"],
                                loc, first.out)
                      ELSE [out |-> first.out, rets |-> {}]
         IN  [out |-> rest.out, rets |-> first.rets \cup rest.rets]

Flow(v, node, loc, assigned) ==
    IF assigned = {} THEN NoFlow
    ELSE IF node.kind = "IfStatement"
    THEN LET c == Flow(v, node.children[1], ChildLocation(loc, 1), assigned)
             t == Flow(v, node.children[2], ChildLocation(loc, 2), c.out)
             f == IF Len(node.children) = 3
                  THEN Flow(v, node.children[3], ChildLocation(loc, 3), c.out)
                  ELSE [out |-> c.out, rets |-> {}]
         IN  [out |-> t.out \cup f.out, rets |-> c.rets \cup t.rets \cup f.rets]
    ELSE IF node.kind = "WhileStatement"
    THEN LET c1 == Flow(v, node.children[1], ChildLocation(loc, 1), assigned)
             b  == Flow(v, node.children[2], ChildLocation(loc, 2), c1.out)
             c2 == Flow(v, node.children[1], ChildLocation(loc, 1), b.out)
         IN  [out |-> c1.out \cup c2.out, rets |-> c1.rets \cup b.rets \cup c2.rets]
    ELSE IF node.kind = "Return"
    THEN LET e == FlowFrom(v, node, loc, 1, assigned)
         IN  [out |-> {}, rets |-> e.rets \cup {[loc |-> loc, assigned |-> a] : a \in e.out}]
    ELSE IF node.kind = "Rest"
    THEN LET k == Min({i \in 1..Len(node.children) : node.children[i] # Literal}
                      \cup {Len(node.children) + 1})
         IN  FlowFrom(v, node, loc, k, assigned)
    ELSE IF IsPlainWriteOf(v, node)
    THEN [out |-> {TRUE}, rets |-> {}]
    ELSE FlowFrom(v, node, loc, 1, assigned)

\* the constructors of the hierarchy in the order they run, most base first
ConstructorsInOrder ==
    SelectSeq([i \in 1..Len(linearizeContracts) |-> constructor(linearizeContracts[i])],
              LAMBDA c : c # nullptr)

\* the flow through the first n constructors; a return ends its constructor
\* and construction goes on with the next one
RECURSIVE ConstructionFlow(_, _)
ConstructionFlow(v, n) ==
    IF n = 0
    THEN [out |-> {prog.value[v] # <<>>}, rets |-> {}]
    ELSE LET before == ConstructionFlow(v, n - 1)
             c    == ConstructorsInOrder[n]
             here == Flow(v, prog.body[c][1], Location(c, <<>>), before.out)
         IN  [out |-> here.out \cup {r.assigned : r \in here.rets},
              rets |-> before.rets \cup here.rets]

\* where some path ends with v unassigned: returns, and the unit itself for
\* the end of construction
EndsWithout(v) ==
    LET flow == ConstructionFlow(v, Len(ConstructorsInOrder))
    IN  {r.loc : r \in {q \in flow.rets : ~q.assigned}}
        \cup (IF FALSE \in flow.out THEN {Location(m_currentContract, <<>>)} ELSE {})

EndsReported(loc, v) ==
    \E i \in 1..Len(m_errorReporter) :
        /\ m_errorReporter[i].location = loc
        /\ m_errorReporter[i].message = ErrEnds
        /\ m_errorReporter[i].secondary = v

\* the claim as made, at its weakest: the variable is named at one of the
\* places where a path ends without it
C5_UnassignedOnSomePathReported ==
    pc = "done" =>
        \A v \in VisibleImmutables :
            EndsWithout(v) # {} => \E loc \in EndsWithout(v) : EndsReported(loc, v)

WrittenBefore(v, n) ==
    \E j \in 1..n : uses[j].var = v /\ uses[j].kind \in {"write", "inline"}

ConstructorReturns ==
    {s.loc : s \in {t \in Sites : /\ t.owner \in Constructors /\ t.part = "body"
                                  /\ t.node.kind = "Return"}}

\* amended: the check at a constructor's return, and the one that ends the
\* analysis, name exactly the immutables of which no inline initializer and
\* no plain write has been traversed before, wherever the write stands
C5_UnwrittenSoFarReported ==
    /\ \A k \in 1..Len(checks) :
          \A v \in VisibleImmutables :
              EndsReported(checks[k].loc, v) <=> ~WrittenBefore(v, checks[k].usesBefore)
    /\ \A i \in 1..Len(m_errorReporter) :
          m_errorReporter[i].message = ErrEnds =>
              /\ m_errorReporter[i].secondary \in VisibleImmutables
              /\ \E k \in 1..Len(checks) : checks[k].loc = m_errorReporter[i].location
    /\ pc = "done" =>
          {checks[k].loc : k \in 1..Len(checks)} =
              ConstructorReturns \cup {Location(m_currentContract, <<>>)}

\* a return reached with y written in an if arm only and x not at all: x is
\* named there and at the end, y nowhere
C5_Witness ==
    /\ pc = "done"
    /\ \E k \in 1..Len(checks) :
          /\ checks[k].loc \in ConstructorReturns
          /\ checks[k].loc \in EndsWithout("y")
          /\ EndsReported(checks[k].loc, "x")
          /\ ~EndsReported(checks[k].loc, "y")
          /\ \E j \in 1..checks[k].usesBefore :
                /\ uses[j].var = "y" /\ uses[j].kind = "write"
                /\ ContextAt(uses[j].loc).inIfArm
    /\ EndsReported(Location(m_currentContract, <<>>), "x")

(***************************************************************************)
(* C6.  A plain write to an immutable inside an arm of an if statement     *)
(* gets one violation, "must be initialized unconditionally, not in an if  *)
(* statement".                                                             *)
(***************************************************************************)
IsWrite(i) == uses[i].kind = "write"

AlreadyIfWrittenEarlier(i) ==
    IF EarlierWrites(i) # {} THEN <<ErrAlready>> ELSE <<>>

\* the claim as made
C6_WriteInIfArmOnlyBranchViolation ==
    \A i \in 1..Len(uses) :
        (IsWrite(i) /\ ContextAt(uses[i].loc).inIfArm) =>
            MessagesAt(uses[i].loc) = <<ErrBranch>>

\* amended: so it is in the constructor of the declaring unit, outside every
\* while statement, for a variable not written before; a variable written
\* before gets "already initialized" as well, and elsewhere the placement
\* violation is another one
C6_WriteInIfArmBranchViolation ==
    \A i \in 1..Len(uses) :
        (IsWrite(i) /\ ContextAt(uses[i].loc).inIfArm) =>
            LET ms == MessagesAt(uses[i].loc)
            IN  IF InOwnConstructorBody(uses[i]) /\ ~ContextAt(uses[i].loc).inWhile
                THEN ms = <<ErrBranch>> \o AlreadyIfWrittenEarlier(i)
                ELSE /\ Len(ms) = 1 + Len(AlreadyIfWrittenEarlier(i))
                     /\ ms[1] \in {ErrNoConstructor, ErrOtherContract, ErrLoop}
                     /\ SubSeq(ms, 2, Len(ms)) = AlreadyIfWrittenEarlier(i)

\* the one violation, for the first write of y in the else arm of an if in
\* D's constructor
C6_Witness ==
    \E i \in 1..Len(uses) :
        /\ IsWrite(i) /\ EarlierWrites(i) = {}
        /\ InOwnConstructorBody(uses[i])
        /\ ContextAt(uses[i].loc).inIfArm /\ ~ContextAt(uses[i].loc).inWhile
        /\ uses[i].loc.path[Len(uses[i].loc.path) - 1] = 2
        /\ MessagesAt(uses[i].loc) = <<ErrBranch>>

(***************************************************************************)
(* C7.  A plain write to an immutable inside the body of a while statement *)
(* gets one violation, "can only be initialized once, not in a while       *)
(* statement".                                                             *)
(***************************************************************************)
\* the claim as made
C7_WriteInWhileBodyOnlyLoopViolation ==
    \A i \in 1..Len(uses) :
        (IsWrite(i) /\ ContextAt(uses[i].loc).inWhileBody) =>
            MessagesAt(uses[i].loc) = <<ErrLoop>>

\* amended: so it is in the constructor of the declaring unit, also below an
\* if, for a variable not written before; a variable written before gets
\* "already initialized" as well, and elsewhere the placement violation is
\* another one
C7_WriteInWhileBodyLoopViolation ==
    \A i \in 1..Len(uses) :
        (IsWrite(i) /\ ContextAt(uses[i].loc).inWhileBody) =>
            LET ms == MessagesAt(uses[i].loc)
            IN  IF InOwnConstructorBody(uses[i])
                THEN ms = <<ErrLoop>> \o AlreadyIfWrittenEarlier(i)
                ELSE /\ Len(ms) = 1 + Len(AlreadyIfWrittenEarlier(i))
                     /\ ms[1] \in {ErrNoConstructor, ErrOtherContract}
                     /\ SubSeq(ms, 2, Len(ms)) = AlreadyIfWrittenEarlier(i)

\* the one violation, for the first write of y in an if inside a while of
\* D's constructor
C7_Witness ==
    \E i \in 1..Len(uses) :
        /\ IsWrite(i) /\ EarlierWrites(i) = {}
        /\ InOwnConstructorBody(uses[i])
        /\ ContextAt(uses[i].loc).inWhileBody /\ ContextAt(uses[i].loc).inIfArm
        /\ MessagesAt(uses[i].loc) = <<ErrLoop>>

(***************************************************************************)
(* C8.  The visit of f.selector, f a function and the result a fixed-size  *)
(* byte type, changes nothing: the operand is not traversed, f is not      *)
(* recorded as visited, the initialized set, the flags and the violations  *)
(* stay as they are.                                                       *)
(***************************************************************************)
VisitingSelectorOfFunction ==
    /\ Accepting("MemberAccess")
    /\ Top.node.memberName = "selector"
    /\ Top.node.expressionIsFunctionType
    /\ Top.node.typeIsFixedBytes

C8_SelectorVisitChangesNothing ==
    [][VisitingSelectorOfFunction =>
          /\ stack' = Rest
          /\ UNCHANGED <<prog, starts, scopes, pc, idx, flags, sets, m_errorReporter,
                         history, log>>]_vars

\* B's constructor mentions f.selector, f reads the immutable x, and the
\* analysis is over: f was requested in phase 4 only and its read is legal
C8_Witness ==
    /\ pc = "done"
    /\ prog.body["B.ctor"][1].children = <<Assign("x"), Selector("B.f")>>
    /\ prog.body["B.f"][1].children = <<Ref("x")>>
    /\ \E i \in 1..Len(requests) : requests[i].callable = "B.f"
    /\ \A i \in 1..Len(requests) :
          requests[i].callable = "B.f" => requests[i].phase = "phase4"
    /\ ErrorsAt(Location("B.f", <<1>>)) = <<>>
    /\ \E i \in 1..Len(uses) : uses[i].loc = Location("B.f", <<1>>)

(***************************************************************************)
(* C9.  analyze() terminates, also for units whose functions and modifiers *)
(* reference each other in cycles.                                         *)
(***************************************************************************)
C9_AnalyzeTerminates == <>Done

\* the analysis is over for a unit with a cycle through a virtual reference:
\* the override D.f calls g, and g's "f" was resolved to D.f again
C9_Witness ==
    /\ pc = "done"
    /\ \E i, j \in 1..Len(requests) :
          /\ requests[i].callable = "D.g" /\ requests[i].from.root = "D.f"
          /\ requests[j].callable = "D.f" /\ requests[j].from.root = "D.g"
          /\ NodeAt(requests[j].from).referencedDeclaration = "B.f"
          /\ ~requests[j].first

(***************************************************************************)
(* C10.  The body of a function or modifier is traversed at most once in a *)
(* run: the first request for it records it and walks it, under the flags  *)
(* then in force, and every later request does nothing; what phases 1-3    *)
(* reached is skipped in phase 4.                                          *)
(***************************************************************************)
RequestedBefore(i) ==
    \E j \in 1..(i - 1) : requests[j].callable = requests[i].callable

C10_WalkedAtMostOnce ==
    /\ \A i, j \in 1..Len(walks) : walks[i].callable = walks[j].callable => i = j
    /\ \A i \in 1..Len(requests) :
          /\ requests[i].first <=> ~RequestedBefore(i)
          /\ requests[i].callable \in m_visitedCallables
    /\ \A k \in 1..Len(walks) :
          \E i \in 1..Len(requests) :
              /\ requests[i].first
              /\ requests[i].callable = walks[k].callable
              /\ requests[i].phase = walks[k].phase
              /\ walks[k].readingAllowed = (walks[k].phase = "phase4")
    /\ Len(walks) <= Cardinality({i \in 1..Len(requests) : requests[i].first})
    /\ Len(walks) >= Cardinality({i \in 1..Len(requests) : requests[i].first}) - 1

\* phase 4 asks for a function that a constructor's call chain has walked
\* with reading forbidden, and does not walk it again
C10_Witness ==
    /\ pc = "done"
    /\ \E i \in 1..Len(requests), k \in 1..Len(walks) :
          /\ requests[i].phase = "phase4" /\ ~requests[i].first
          /\ requests[i].from = NoLocation
          /\ ~CallableDeclaration(requests[i].callable).isConstructor
          /\ walks[k].callable = requests[i].callable
          /\ walks[k].phase = "phase2" /\ ~walks[k].readingAllowed

(***************************************************************************)
(* C11.  The order in which the phases take the ancestors: phase 2 most    *)
(* base first, phases 3 and 4 most derived first; phase 4 takes the        *)
(* functions, then the modifiers, of each ancestor.                        *)
(***************************************************************************)
\* the iterations of a phase are in the order of the linearized list
\* (most derived first) or in the opposite order (most base first)
StartsOrdered(phase, mostBaseFirst) ==
    \A i, j \in 1..Len(starts) :
        (i < j /\ starts[i].phase = phase /\ starts[j].phase = phase) =>
            IF mostBaseFirst
            THEN Rank(starts[i].of) > Rank(starts[j].of)
            ELSE Rank(starts[i].of) < Rank(starts[j].of)

\* the claim as made
C11_ConstructorsBaseFirstOthersDerivedFirst ==
    /\ StartsOrdered("phase2", TRUE)
    /\ StartsOrdered("phase3", FALSE)
    /\ StartsOrdered("phase4", FALSE)

MostBaseFirst ==
    [i \in 1..Len(linearizedBaseContracts) |->
        linearizedBaseContracts[Len(linearizedBaseContracts) + 1 - i]]

\* the callables analyze() itself asked for in a phase, in order
TopRequests(phase) ==
    LET top == SelectSeq(requests, LAMBDA r : r.from = NoLocation /\ r.phase = phase)
    IN  [i \in 1..Len(top) |-> top[i].callable]

StartedFor(phase) ==
    LET of == SelectSeq(starts, LAMBDA t : t.phase = phase)
    IN  [i \in 1..Len(of) |-> of[i].of]

\* amended: all three phases take the ancestors most base first
C11_EveryPhaseMostBaseFirst ==
    /\ StartsOrdered("phase2", TRUE)
    /\ StartsOrdered("phase3", TRUE)
    /\ StartsOrdered("phase4", TRUE)
    /\ pc = "done" =>
          /\ \A phase \in {"phase2", "phase3", "phase4"} : StartedFor(phase) = MostBaseFirst
          /\ TopRequests("phase2") =
                 SelectSeq([i \in 1..Len(MostBaseFirst) |-> constructor(MostBaseFirst[i])],
                           LAMBDA c : c # nullptr)
          /\ TopRequests("phase4") =
                 Flatten([i \in 1..Len(MostBaseFirst) |->
                             prog.definedFunctions[MostBaseFirst[i]]
                             \o prog.functionModifiers[MostBaseFirst[i]]])

\* the analysis is over for a unit whose phase 3 walked D's base arguments
\* after B's turn and whose phase 4 asked for B's modifier before D's g
C11_Witness ==
    /\ pc = "done"
    /\ StartedFor("phase3") = <<"B", "D">>
    /\ \E i \in 1..Len(uses) : uses[i].loc.root = "D"
    /\ \E i, j \in 1..Len(TopRequests("phase4")) :
          /\ i < j
          /\ TopRequests("phase4")[i] = "B.m"
          /\ TopRequests("phase4")[j] = "D.g"

(***************************************************************************)
(* C12.  The schedule of the phase flags: reading is forbidden throughout  *)
(* phases 1 to 3 and allowed from the start of phase 4; initialization is  *)
(* forbidden from the start of phase 3 on.  The two are never allowed      *)
(* together, and every constructor is walked with reading forbidden.       *)
(***************************************************************************)
C12_PhaseFlagSchedule ==
    /\ pc \in {"phase1", "phase2", "phase3", "assertionFailed"} =>
          ~m_readingOfImmutableAllowed
    /\ pc \in {"phase4", "done"} => m_readingOfImmutableAllowed
    /\ pc \in {"phase3", "phase4", "done"} => ~m_initializationOfImmutableAllowed
    /\ ~(m_initializationOfImmutableAllowed /\ m_readingOfImmutableAllowed)
    /\ \A k \in 1..Len(walks) :
          /\ walks[k].readingAllowed <=> walks[k].phase = "phase4"
          /\ walks[k].initializationAllowed => walks[k].phase \in {"phase1", "phase2"}
          /\ CallableDeclaration(walks[k].callable).isConstructor =>
                ~walks[k].readingAllowed /\ walks[k].phase = "phase2"

\* phase 4 is inside the body of a function, past the modifier invocations,
\* and the constructors have been walked
C12_Witness ==
    /\ pc = "phase4"
    /\ Accepting("Identifier")
    /\ Top.loc.root \in Callables /\ PartAt(Top.loc) = "body"
    /\ m_readingOfImmutableAllowed /\ ~m_initializationOfImmutableAllowed
    /\ \E k \in 1..Len(walks) :
          /\ CallableDeclaration(walks[k].callable).isConstructor
          /\ walks[k].initializationAllowed

(***************************************************************************)
(* C13.  The completeness check runs once after the four phases, at the    *)
(* unit's location, and once for each return statement traversed while a   *)
(* constructor is current, after the returned expression; a return in      *)
(* another function or in a modifier triggers none, also when that         *)
(* callable is reached from a constructor.                                 *)
(***************************************************************************)
UnitLocation == Location(m_currentContract, <<>>)

IsBelow(loc, above) ==
    /\ loc.root = above.root
    /\ Len(loc.path) > Len(above.path)
    /\ SubSeq(loc.path, 1, Len(above.path)) = above.path

\* the immutables used in the expression of the return at loc
UsedInReturn(loc) ==
    {s.loc : s \in {t \in NodesBelow(NodeAt(loc), loc, loc.root, "body", TopContext) :
                       IsImmutableUse(t.node) /\ ~t.ctx.inSelector}}

C13_CompletenessCheckPoints ==
    /\ \A k, n \in 1..Len(checks) : checks[k].loc = checks[n].loc => k = n
    /\ \A k \in 1..Len(checks) :
          IF checks[k].loc = UnitLocation
          THEN pc = "done" /\ k = Len(checks)
          ELSE /\ InConstructorBody(checks[k].loc)
               /\ NodeAt(checks[k].loc).kind = "Return"
               /\ \A j \in 1..Len(uses) :
                     IsBelow(uses[j].loc, checks[k].loc) => j <= checks[k].usesBefore
               /\ UsedInReturn(checks[k].loc) \subseteq
                      {uses[j].loc : j \in 1..checks[k].usesBefore}
    /\ pc = "done" =>
          {checks[k].loc : k \in 1..Len(checks)} = ConstructorReturns \cup {UnitLocation}

\* D's constructor calls g, whose body returns, and then returns "y = 1":
\* one check for the constructor's return, which finds y written, one at the
\* end, none for the return in g
C13_Witness ==
    /\ pc = "done"
    /\ Len(checks) = 2
    /\ checks[1].loc = Location("D.ctor", <<2>>)
    /\ UsedInReturn(checks[1].loc) # {}
    /\ \E k \in 1..Len(walks) : walks[k].callable = "D.g" /\ walks[k].phase = "phase2"
    /\ \E s \in NodesBelow(prog.body["D.g"][1], Location("D.g", <<>>), "D.g", "body",
                           TopContext) : s.node.kind = "Return"

(***************************************************************************)
(* C14.  A plain write gets at most one placement violation, the first of: *)
(* not in a constructor, constructor of another contract, in a loop, in a  *)
(* branch, initialization forbidden; apart from that it gets "already      *)
(* initialized" exactly when the variable was in the initialized set, and  *)
(* is inserted otherwise.  Any other use gets the read violation, and only *)
(* when reading is forbidden.                                              *)
(***************************************************************************)
\* the placement violation of a write, from where the write stands
PlacementOf(u) ==
    IF ~(u.loc.root \in Callables /\ CallableDeclaration(u.loc.root).isConstructor)
    THEN <<ErrNoConstructor>>
    ELSE IF CallableDeclaration(u.loc.root).contract # VariableDeclaration(u.var).contract
    THEN <<ErrOtherContract>>
    ELSE IF ContextAt(u.loc).inWhile
    THEN <<ErrLoop>>
    ELSE IF ContextAt(u.loc).inIfArm
    THEN <<ErrBranch>>
    ELSE IF PartAt(u.loc) = "modifiers"
    THEN <<ErrNotBody>>
    ELSE <<>>

\* reading was forbidden when the use was judged: it stands in an inline
\* initializer or a base argument, or in a callable walked before phase 4
ReadingForbiddenAt(loc) ==
    loc.root \in Callables =>
        \E k \in 1..Len(walks) : walks[k].callable = loc.root /\ ~walks[k].readingAllowed

C14_ViolationsOfEachUse ==
    /\ \A i \in 1..Len(uses) :
          /\ IsWrite(i) =>
                MessagesAt(uses[i].loc) = PlacementOf(uses[i]) \o AlreadyIfWrittenEarlier(i)
          /\ uses[i].kind = "read" =>
                MessagesAt(uses[i].loc) =
                    IF ReadingForbiddenAt(uses[i].loc) THEN <<ErrRead>> ELSE <<>>
    /\ m_initializedStateVariables =
           {uses[i].var : i \in {j \in 1..Len(uses) : uses[j].kind \in {"write", "inline"}}}

\* a write with a placement violation and "already initialized", and a read
\* with the read violation
C14_Witness ==
    /\ \E i \in 1..Len(uses) :
          /\ IsWrite(i)
          /\ PlacementOf(uses[i]) # <<>> /\ EarlierWrites(i) # {}
          /\ Len(MessagesAt(uses[i].loc)) = 2
    /\ \E i \in 1..Len(uses) :
          uses[i].kind = "read" /\ MessagesAt(uses[i].loc) = <<ErrRead>>

(***************************************************************************)
(* C15.  findFinalOverride returns a callable without virtual semantics    *)
(* unchanged; for one with virtual semantics it returns the first          *)
(* declaration, from the most derived contract to the most base one, of    *)
(* the same kind and name and, for functions, the same parameter and       *)
(* return types, and the callable itself when there is none.               *)
(***************************************************************************)
FinalOverride(callable) ==
    IF ~CallableDeclaration(callable).virtualSemantics \/ Overriders(callable) = {}
    THEN callable
    ELSE CHOOSE d \in DeclaredCallables : IsMostDerivedOverride(d, callable)

\* for every callable as argument (the result depends on the unit alone, so
\* the states before the first request cover it), and for the identifier
\* the walk has resolved last
C15_FindFinalOverride ==
    IF requests = <<>>
    THEN \A callable \in Callables : findFinalOverride(callable) = FinalOverride(callable)
    ELSE (LastRequest.from # NoLocation /\ NodeAt(LastRequest.from).kind = "Identifier") =>
              LastRequest.callable =
                  FinalOverride(NodeAt(LastRequest.from).referencedDeclaration)

\* an identifier naming the virtual f of B was resolved to D's f(), which D
\* declares after its f(uint); B's virtual m resolves to D's m, g to itself
C15_Witness ==
    /\ prog.definedFunctions["D"] = <<"D.ctor", "D.fu", "D.f", "D.g">>
    /\ \E i \in 1..Len(requests) :
          /\ requests[i].from # NoLocation
          /\ NodeAt(requests[i].from) = Ref("B.f")
          /\ requests[i].callable = "D.f"
    /\ findFinalOverride("B.m") = "D.m"
    /\ findFinalOverride("D.g") = "D.g"

(***************************************************************************)
(* C16.  Initialization is forbidden while the modifier invocations and    *)
(* base constructor calls of a function are traversed, also in phase 2: a  *)
(* plain write to an immutable in such an argument of the constructor of   *)
(* its declaring contract, outside loops and branches, is reported "must   *)
(* be initialized in the constructor body"; the same write in the body is  *)
(* not.                                                                    *)
(***************************************************************************)
InOwnConstructor(u) ==
    /\ u.loc.root \in Callables
    /\ CallableDeclaration(u.loc.root).isConstructor
    /\ CallableDeclaration(u.loc.root).contract = VariableDeclaration(u.var).contract

C16_WriteInInvocationArgument ==
    /\ (Executing("accept") /\ Top.loc.root \in Callables) =>
          IF PartAt(Top.loc) = "modifiers"
          THEN ~m_initializationOfImmutableAllowed
          ELSE \E k \in 1..Len(walks) :
                  /\ walks[k].callable = Top.loc.root
                  /\ m_initializationOfImmutableAllowed = walks[k].initializationAllowed
                  /\ CallableDeclaration(Top.loc.root).isConstructor =>
                        m_initializationOfImmutableAllowed
    /\ \A i \in 1..Len(uses) :
          (/\ IsWrite(i) /\ InOwnConstructor(uses[i])
           /\ ~ContextAt(uses[i].loc).inWhile /\ ~ContextAt(uses[i].loc).inIfArm) =>
              IF PartAt(uses[i].loc) = "modifiers"
              THEN MessagesAt(uses[i].loc) = <<ErrNotBody>> \o AlreadyIfWrittenEarlier(i)
              ELSE MessagesAt(uses[i].loc) = AlreadyIfWrittenEarlier(i)

\* phase 2 has judged "y = 1" in an argument of a modifier invocation of D's
\* constructor, after "x = 1" in the body of B's constructor
C16_Witness ==
    /\ pc = "phase2"
    /\ \E i, j \in 1..Len(uses) :
          /\ IsWrite(i) /\ InOwnConstructor(uses[i]) /\ PartAt(uses[i].loc) = "modifiers"
          /\ MessagesAt(uses[i].loc) = <<ErrNotBody>>
          /\ IsWrite(j) /\ InOwnConstructor(uses[j]) /\ PartAt(uses[j].loc) = "body"
          /\ MessagesAt(uses[j].loc) = <<>>

(***************************************************************************)
(* C17.  The condition of an if statement is traversed without the branch  *)
(* flag being raised for it, its arms with the flag raised; the condition  *)
(* and the body of a while statement with the loop flag raised; for every  *)
(* nesting of the two.                                                     *)
(***************************************************************************)
\* the walk of the callable a location belongs to
WalkOf(callable) == CHOOSE w \in {walks[k] : k \in 1..Len(walks)} : w.callable = callable

\* the flags the traversal that holds loc began with
BranchOnEntry(loc) == loc.root \in Callables /\ WalkOf(loc.root).inBranch
LoopOnEntry(loc) == loc.root \in Callables /\ WalkOf(loc.root).inLoop

\* whenever a node is about to be visited, the flags are those of the
\* statements around it: raised below an arm of an if, below a while, or
\* from the start of the traversal, and not otherwise
C17_FlagsFollowNesting ==
    Executing("accept") =>
        /\ m_inBranch <=> (ContextAt(Top.loc).inIfArm \/ BranchOnEntry(Top.loc))
        /\ m_inLoop <=> (ContextAt(Top.loc).inWhile \/ LoopOnEntry(Top.loc))

\* about to visit the condition of an if that is the body of a while: the
\* loop flag is raised and the branch flag is not
C17_Witness ==
    /\ Executing("accept")
    /\ ContextAt(Top.loc).inIfCondition /\ ContextAt(Top.loc).inWhileBody
    /\ ~ContextAt(Top.loc).inIfArm
    /\ m_inLoop /\ ~m_inBranch
    /\ \E i \in 1..Len(uses) : ContextAt(uses[i].loc).inIfArm

(***************************************************************************)
(* C18.  When the traversal of an if statement, a while statement or a     *)
(* callable is over, the branch flag, the loop flag, the constructor       *)
(* marker and the initialization flag are what they were when it began.    *)
(* So every traversal analyze() starts itself begins outside branches and  *)
(* loops and with no constructor current.                                  *)
(***************************************************************************)
C18_ScopedStateRestored ==
    /\ \A i \in 1..Len(scopes) :
          scopes[i].exit # <<>> =>
              /\ scopes[i].exit[1].flags = scopes[i].entry
              /\ scopes[i].exit[1].below = scopes[i].below
    /\ \A i \in 1..Len(starts) :
          /\ ~starts[i].inBranch /\ ~starts[i].inLoop
          /\ starts[i].currentConstructor = nullptr
    /\ stack = <<>> =>
          /\ \A i \in 1..Len(scopes) : scopes[i].exit # <<>>
          /\ ~m_inBranch /\ ~m_inLoop /\ m_currentConstructor = nullptr

\* g was walked from inside a while inside an if of D's constructor, a while
\* of its own within, and analyze() went on to the next phases
C18_Witness ==
    /\ pc = "done"
    /\ \E i, j \in 1..Len(scopes) :
          /\ i < j
          /\ scopes[i].of = "callable"
          /\ scopes[i].entry.inBranch /\ scopes[i].entry.inLoop
          /\ scopes[i].entry.currentConstructor = "D.ctor"
          /\ scopes[i].entry.initializationAllowed
          /\ scopes[j].of = "while" /\ scopes[j].entry.inLoop
          /\ scopes[j].below > scopes[i].below
          /\ scopes[i].exit # <<>> /\ scopes[j].exit # <<>>
    /\ \E i \in 1..Len(starts) : starts[i].phase = "phase4"

(***************************************************************************)
(* C19.  In phase 1 the recording of a state variable with an inline       *)
(* initializer always inserts: the variable is never in the initialized    *)
(* set already, so the assertion of line 35 holds in every run, also for   *)
(* initializers that call functions whose bodies assign immutables.        *)
(***************************************************************************)
C19_InlineRecordingInserts ==
    /\ Executing("emplace") => Top.decl \notin m_initializedStateVariables
    /\ pc # "assertionFailed"

(***************************************************************************)
(* C20.  Every plain write to an immutable counts as its initialization,   *)
(* reported as misplaced or not and in whichever phase it is traversed:    *)
(* no completeness check after it, the final one included, names the       *)
(* variable.                                                               *)
(***************************************************************************)
C20_EveryWriteInitializes ==
    /\ \A j \in 1..Len(uses) :
          IsWrite(j) => uses[j].var \in m_initializedStateVariables
    /\ \A k \in 1..Len(checks) :
          \A j \in 1..checks[k].usesBefore :
              IsWrite(j) => ~EndsReported(checks[k].loc, uses[j].var)

\* the only write of y stands in g, no constructor calls g, phase 4 walked g
\* and reported the write as outside a constructor, and the final check
\* does not name y
C20_Witness ==
    /\ pc = "done"
    /\ \E j \in 1..Len(uses) :
          /\ IsWrite(j) /\ uses[j].var = "y" /\ uses[j].loc.root = "D.g"
          /\ MessagesAt(uses[j].loc) = <<ErrNoConstructor>>
          /\ \A i \in 1..Len(uses) : (uses[i].var = "y" /\ IsWrite(i)) => i = j
    /\ \E k \in 1..Len(walks) : walks[k].callable = "D.g" /\ walks[k].phase = "phase4"
    /\ checks[Len(checks)].usesBefore = Len(uses)
    /\ ~EndsReported(UnitLocation, "y")

====
